---- MODULE Spec2Model ----
(***************************************************************************)
(* speedy-vision: the host-side keypoint decoder of the keypoint sink      *)
(* (src/core/pipeline/nodes/keypoints/sink.js) and the CPU matrix kernel   *)
(* (src/core/math/matrix-math.js), as state machines.                      *)
(*                                                                         *)
(* Byte buffers and typed arrays are sequences; the element the code calls *)
(* a[k] (0-based) is a[k + 1] here.                                        *)
(***************************************************************************)
EXTENDS Integers, Sequences, FiniteSets, TLC

VARIABLES
    \* ---- keypoint sink ----
    cells,            \* the cells the upstream encoder packed (kinds of KeypointPool)
    ending,           \* how the read-back buffer ends (see ReadBack)
    pixels,           \* the byte buffer handed to _decode
    descriptorSize,   \* message field
    extraSize,        \* message field
    encoderLength,    \* message field
    _keypoints,       \* SpeedyPipelineNodeKeypointSink._keypoints
    pc,               \* position of the sink: "message", "pixels", "decoded"
    \* ---- matrix kernel ----
    setup,            \* the operands chosen for one interpreter call
    header,           \* header of the call
    inputs,           \* input storages of the call
    before,           \* output storage before the call
    output,           \* output storage after the call
    op,               \* opcode executed ("NONE" before the call)
    \* ---- keypoint encoder, one thread of the shader ----
    image,            \* uniform image: the sparse keypoint image and its size
    thread,           \* what the thread derives from its location, and tileIndex
    scan,             \* locals and out-parameters of findQthKeypoint
    color,            \* the output pixel of the thread
    epc,              \* position of the thread: "idle", "scan", "done"
    \* ---- keypoint encoder, the tiled passes over one texture ----
    tiling,           \* uniforms of the passes: image, sizes, encoderLength, tileSize
    tex,              \* the output texture, by raster index of the thread
    writes,           \* how many passes have written each output pixel
    done,             \* the values of tileIndex already drawn
    last,             \* the last pass: its tileIndex and the texture before it
    \* ---- keypoint sink, runs and exports ----
    inbox,            \* the message on the input port of the sink
    pending,          \* the read-backs in flight, one per _run not yet resolved
    resolved,         \* the message of the _run that resolved last
    exported          \* what the last export() yielded, and after which _run

sinkVars == <<cells, ending, pixels, descriptorSize, extraSize, encoderLength, _keypoints, pc>>
matVars == <<setup, header, inputs, before, output, op>>
encVars == <<image, thread, scan, color, epc>>
tileVars == <<tiling, tex, writes, done, last>>
runVars == <<inbox, pending, resolved, exported>>
extVars == <<encVars, tileVars, runVars>>
vars == <<sinkVars, matVars, extVars>>

(***************************************************************************)
(* Bounds of the model                                                     *)
(***************************************************************************)
MaxCells == 3
MaxCut == 5
MaxTail == 4
MaxDescriptorSize == 2
MaxExtraSize == 1
MaxEncoderLength == 3
MaxDim == 2
MaxPad == 1
MaxSeed == 2
MaxInit == 1

(***************************************************************************)
(* JavaScript values                                                       *)
(***************************************************************************)
\* the value of an out-of-range read of an array
undefined == 0 - 2000000
\* not-a-number
NaN == 0 - 1000000

Min(a, b) == IF a < b THEN a ELSE b
Max(a, b) == IF a > b THEN a ELSE b

\* Math.ceil(a / b) for a >= 0, b > 0
Ceil(a, b) == (a + b - 1) \div b

\* pixels[k]: undefined past the end of the buffer
Px(buf, k) == IF k >= 0 /\ k < Len(buf) THEN buf[k + 1] ELSE undefined

\* ToInt32 of a byte or of undefined, as << and | apply it
ToInt32(v) == IF v = undefined THEN 0 ELSE v

\* (hi << 8) | lo for bytes (or undefined)
Word(hi, lo) == ToInt32(hi) * 256 + ToInt32(lo)

\* TypedArray.prototype.subarray(begin, end): both ends clamped to the array
subarray(buf, begin, end) ==
    LET b == Min(Max(begin, 0), Len(buf))
        e == Min(Max(end, 0), Len(buf))
    IN  IF e <= b THEN <<>> ELSE SubSeq(buf, b + 1, e)

(***************************************************************************)
(* Constants of utils/globals                                              *)
(***************************************************************************)
MIN_KEYPOINT_SIZE == 8
FIX_RESOLUTION == 8
LOG2_PYRAMID_MAX_SCALE == 0
PYRAMID_MAX_LEVELS == 8

\* an exact quotient num / den (the decoder's floating-point divisions)
Frac(num, den) == <<num, den>>

(***************************************************************************)
(* SpeedyPipelineNodeKeypointSink._decode                                  *)
(***************************************************************************)
pixelsPerKeypoint(dSize, eSize) == Ceil(MIN_KEYPOINT_SIZE + dSize + eSize, 4)
bytesPerKeypoint(dSize, eSize) == 4 * pixelsPerKeypoint(dSize, eSize)

\* how many bytes should we read?
DecodeSize(buf, dSize, eSize, e) ==
    Min(Len(buf), e * e * pixelsPerKeypoint(dSize, eSize) * 4)

\* raw fixed-point coordinates of the cell at byte i
RawX(buf, i) == Word(Px(buf, i + 1), Px(buf, i))
RawY(buf, i) == Word(Px(buf, i + 3), Px(buf, i + 2))

\* x >= 0xFFFF && y >= 0xFFFF
IsNullKeypoint(buf, i) == RawX(buf, i) >= 65535 /\ RawY(buf, i) >= 65535

\* mutant: the score byte is not looked at
IsZeroHeader_PositionOnly(buf, i) == RawX(buf, i) + RawY(buf, i) = 0

\* x + y == 0 && pixels[i+6] == 0
IsZeroHeader(buf, i) == RawX(buf, i) + RawY(buf, i) = 0 /\ Px(buf, i + 6) = 0

\* lod = (pixels[i+4] < 255) ? -m + ((m + h) * pixels[i+4]) / 255.0 : 0.0
DecodeLod(b) ==
    LET m == LOG2_PYRAMID_MAX_SCALE
        h == PYRAMID_MAX_LEVELS
    IN  IF b # undefined /\ b < 255
        THEN Frac((0 - m) * 255 + (m + h) * b, 255)
        ELSE Frac(0, 255)

\* rotation = (2 * pixels[i+5] - 255) * piOver255, in units of pi / 255
DecodeRotation(b) == IF b = undefined THEN NaN ELSE 2 * b - 255

ExtraBytes(buf, i, dSize, eSize) == subarray(buf, 8 + i, 8 + i + eSize)

\* mutant: the descriptor is read right after the header
DescriptorBytes_First(buf, i, dSize, eSize) == subarray(buf, 8 + i, 8 + i + dSize)

DescriptorBytes(buf, i, dSize, eSize) ==
    subarray(buf, 8 + i + eSize, 8 + i + eSize + dSize)

\* mutant: no cell is discarded for being cut short
IsTruncated_Never(buf, i, dSize, eSize) == FALSE

\* something is off here
IsTruncated(buf, i, dSize, eSize) ==
    \/ Len(DescriptorBytes(buf, i, dSize, eSize)) < dSize
    \/ Len(ExtraBytes(buf, i, dSize, eSize)) < eSize

\* mutant: the score is read big-endian
SpeedyKeypoint_ScoreSwapped(buf, i, dSize, eSize) ==
    [ x          |-> Frac(RawX(buf, i), FIX_RESOLUTION),
      y          |-> Frac(RawY(buf, i), FIX_RESOLUTION),
      lod        |-> DecodeLod(Px(buf, i + 4)),
      rotation   |-> DecodeRotation(Px(buf, i + 5)),
      score      |-> Word(Px(buf, i + 6), Px(buf, i + 7)),
      descriptor |-> DescriptorBytes(buf, i, dSize, eSize),
      extra      |-> ExtraBytes(buf, i, dSize, eSize) ]

\* new SpeedyKeypoint(x, y, lod, rotation, score, descriptorBytes, extraBytes)
SpeedyKeypoint(buf, i, dSize, eSize) ==
    [ x          |-> Frac(RawX(buf, i), FIX_RESOLUTION),
      y          |-> Frac(RawY(buf, i), FIX_RESOLUTION),
      lod        |-> DecodeLod(Px(buf, i + 4)),
      rotation   |-> DecodeRotation(Px(buf, i + 5)),
      score      |-> Word(Px(buf, i + 7), Px(buf, i + 6)),
      descriptor |-> DescriptorBytes(buf, i, dSize, eSize),
      extra      |-> ExtraBytes(buf, i, dSize, eSize) ]

\* mutant: the null keypoint is skipped instead of ending the loop
RECURSIVE DecodeLoop_NoBreak(_, _, _, _, _, _)
DecodeLoop_NoBreak(buf, dSize, eSize, size, i, keypoints) ==
    IF ~(i < size) THEN keypoints
    ELSE IF IsNullKeypoint(buf, i) \/ IsZeroHeader(buf, i) \/ IsTruncated(buf, i, dSize, eSize)
         THEN DecodeLoop_NoBreak(buf, dSize, eSize, size,
                                 i + bytesPerKeypoint(dSize, eSize), keypoints)
    ELSE DecodeLoop_NoBreak(buf, dSize, eSize, size,
                            i + bytesPerKeypoint(dSize, eSize),
                            Append(keypoints, SpeedyKeypoint(buf, i, dSize, eSize)))

\* for(let i = 0; i < size; i += bytesPerKeypoint) { ... }
RECURSIVE DecodeLoop(_, _, _, _, _, _)
DecodeLoop(buf, dSize, eSize, size, i, keypoints) ==
    IF ~(i < size) THEN keypoints
    ELSE IF IsNullKeypoint(buf, i) THEN keypoints                       \* break
    ELSE IF IsZeroHeader(buf, i)
         THEN DecodeLoop(buf, dSize, eSize, size,
                         i + bytesPerKeypoint(dSize, eSize), keypoints) \* continue
    ELSE IF IsTruncated(buf, i, dSize, eSize)
         THEN DecodeLoop(buf, dSize, eSize, size,
                         i + bytesPerKeypoint(dSize, eSize), keypoints) \* continue
    ELSE DecodeLoop(buf, dSize, eSize, size,
                    i + bytesPerKeypoint(dSize, eSize),
                    Append(keypoints, SpeedyKeypoint(buf, i, dSize, eSize)))

_decode(buf, dSize, eSize, e) ==
    DecodeLoop(buf, dSize, eSize, DecodeSize(buf, dSize, eSize, e), 0, <<>>)

(***************************************************************************)
(* The packed layout as the upstream encoder writes it, and the read-back  *)
(***************************************************************************)
\* raw keypoints the encoder may be given: 1 and 2 are keypoints, 3 has a
\* zero position and a score whose low byte is zero, 4 is the null keypoint
KeypointPool ==
    << [x |-> 65535, y |-> 40,    lod |-> 128, orientation |-> 64,  score |-> 513],
       [x |-> 0,     y |-> 0,     lod |-> 255, orientation |-> 0,   score |-> 7],
       [x |-> 0,     y |-> 0,     lod |-> 9,   orientation |-> 200, score |-> 768],
       [x |-> 65535, y |-> 65535, lod |-> 255, orientation |-> 255, score |-> 65535] >>

Kinds == 1..Len(KeypointPool)
NullKind == Len(KeypointPool)

\* the descriptor/extra bytes of the c-th cell, n bytes
PayloadBytes(kind, c, n) == [k \in 1..n |-> (16 * c + 3 * kind + k) % 256]

\* the c-th keypoint handed to the encoder
RawKeypoint(kind, c, n) ==
    [ x           |-> KeypointPool[kind].x,
      y           |-> KeypointPool[kind].y,
      lod         |-> KeypointPool[kind].lod,
      orientation |-> KeypointPool[kind].orientation,
      score       |-> KeypointPool[kind].score,
      bytes       |-> PayloadBytes(kind, c, n) ]

\* one cell: pixel 0 = position, pixel 1 = lod, orientation, score, then the
\* descriptor/extra bytes, padded with zeros up to the cell size
EncodeCell(kp, dSize, eSize) ==
    << kp.x % 256, kp.x \div 256, kp.y % 256, kp.y \div 256,
       kp.lod, kp.orientation, kp.score % 256, kp.score \div 256 >>
    \o kp.bytes
    \o [k \in 1..(bytesPerKeypoint(dSize, eSize) - 8 - Len(kp.bytes)) |-> 0]

RECURSIVE EncodeKeypoints(_, _, _, _)
EncodeKeypoints(kinds, c, dSize, eSize) ==
    IF c > Len(kinds) THEN <<>>
    ELSE EncodeCell(RawKeypoint(kinds[c], c, dSize + eSize), dSize, eSize)
         \o EncodeKeypoints(kinds, c + 1, dSize, eSize)

\* the buffer read back: the encoded cells, cut short by -end bytes (end < 0)
\* or followed by end bytes FF (end > 0)
ReadBack(kinds, end, dSize, eSize) ==
    LET enc == EncodeKeypoints(kinds, 1, dSize, eSize)
    IN  IF end < 0 THEN SubSeq(enc, 1, Max(Len(enc) + end, 0))
        ELSE enc \o [k \in 1..end |-> 255]

(***************************************************************************)
(* The keypoint sink                                                       *)
(***************************************************************************)
MatIdle ==
    /\ setup = <<>>
    /\ header = <<>>
    /\ inputs = <<>>
    /\ before = <<>>
    /\ output = <<>>
    /\ op = "NONE"

EncIdle ==
    /\ image = <<>>
    /\ thread = <<>>
    /\ scan = <<>>
    /\ color = <<>>
    /\ epc = "idle"

TileIdle ==
    /\ tiling = <<>>
    /\ tex = <<>>
    /\ writes = <<>>
    /\ done = {}
    /\ last = <<>>

RunIdle ==
    /\ inbox = <<>>
    /\ pending = <<>>
    /\ resolved = <<>>
    /\ exported = <<>>

ExtIdle == EncIdle /\ TileIdle /\ RunIdle

\* the sink after construction
SinkInit ==
    /\ cells = <<>>
    /\ ending = 0
    /\ descriptorSize = 0
    /\ extraSize = 0
    /\ encoderLength = 0
    /\ pixels = <<>>
    /\ _keypoints = <<>>
    /\ pc = "message"
    /\ MatIdle
    /\ ExtIdle

\* _run: this.input().read() returns the message of the upstream node, then
\* readPixelsAsync(encodedKeypoints) resolves with the buffer
ReadPixels ==
    /\ pc = "message"
    /\ \E c \in UNION { [1..n -> Kinds] : n \in 0..MaxCells },
          end \in (0 - MaxCut)..MaxTail,
          dSize \in 0..MaxDescriptorSize,
          eSize \in 0..MaxExtraSize,
          e \in 0..MaxEncoderLength :
          /\ cells' = c
          /\ ending' = end
          /\ descriptorSize' = dSize
          /\ extraSize' = eSize
          /\ encoderLength' = e
          /\ pixels' = ReadBack(c, end, dSize, eSize)
    /\ pc' = "pixels"
    /\ UNCHANGED _keypoints
    /\ UNCHANGED <<matVars, extVars>>

\* the then-callback of _run
Decode ==
    /\ pc = "pixels"
    /\ _keypoints' = _decode(pixels, descriptorSize, extraSize, encoderLength)
    /\ pc' = "decoded"
    /\ UNCHANGED <<cells, ending, pixels, descriptorSize, extraSize, encoderLength>>
    /\ UNCHANGED <<matVars, extVars>>

SinkNext == ReadPixels \/ Decode

Spec == SinkInit /\ [][SinkNext]_vars

(***************************************************************************)
(* Properties of the keypoint decoder                                      *)
(***************************************************************************)
bpk == bytesPerKeypoint(descriptorSize, extraSize)

\* a raw keypoint that is neither the null keypoint nor a zero header
IsKeypointKind(kind) ==
    LET kp == KeypointPool[kind]
    IN  /\ ~(kp.x = 65535 /\ kp.y = 65535)
        /\ ~(kp.x + kp.y = 0 /\ kp.score % 256 = 0)

\* byte offsets of the cells that start inside the buffer
CellOffsets == { c * bpk : c \in 0..((Len(pixels) + bpk - 1) \div bpk - 1) }

\* the cell's four position bytes are FF FF FF FF
HasNullPosition(i) ==
    /\ i + 4 <= Len(pixels)
    /\ \A k \in 1..4 : pixels[i + k] = 255

NullCells == { i \in CellOffsets : HasNullPosition(i) }

\* the first cell, in buffer order, that holds the null keypoint
FirstNull == CHOOSE i \in NullCells : \A j \in NullCells : i <= j

\* the offset decoding stops at: the first null cell, or the end of the buffer
SentinelOffset == IF NullCells = {} THEN Len(pixels) ELSE FirstNull

BeforeSentinel(i) == i < SentinelOffset

\* raw x + raw y is 0 and the low byte of the score is 0
EmptyCell(i) ==
    /\ RawX(pixels, i) + RawY(pixels, i) = 0
    /\ i + 6 < Len(pixels)
    /\ pixels[i + 7] = 0

\* fewer than descriptorSize + extraSize bytes remain after the 8 header bytes
TruncatedCell(i) == Max(Len(pixels) - (i + 8), 0) < descriptorSize + extraSize

\* the cells the decoding loop visits
Visited == { i \in CellOffsets : i < encoderLength * encoderLength * bpk }

\* the cells that are expected to produce a keypoint
Producing ==
    LET stop == SentinelOffset
    IN  { i \in Visited : i < stop /\ ~EmptyCell(i) /\ ~TruncatedCell(i) }

\* the k-th element of a set of offsets, in increasing order
Nth(S, k) == CHOOSE i \in S : Cardinality({ j \in S : j < i }) = k - 1

\* bytes [from, to) of the buffer, all inside it
Bytes(from, to) == [k \in 1..(to - from) |-> pixels[from + k]]

\* C1: decoding stops at the first cell whose raw x and raw y are both 0xFFFF: no
\* keypoint comes from that cell or from a later one, whatever the later cells
\* hold (the result is that of the buffer cut before the cell); one valid keypoint
\* followed by FF FF FF FF ... decodes to a list of length 1
C1_StopsAtSentinel ==
    pc = "decoded" =>
        /\ NullCells # {} =>
              LET first == FirstNull
              IN  /\ Len(_keypoints) <= first \div bpk
                  /\ _keypoints = _decode(SubSeq(pixels, 1, first),
                                          descriptorSize, extraSize, encoderLength)
        /\ ( /\ Len(cells) = 1
             /\ IsKeypointKind(cells[1])
             /\ ending >= 4
             /\ encoderLength >= 1 ) => Len(_keypoints) = 1

\* a sentinel cell followed by a complete cell that holds a keypoint, after one
\* keypoint that was decoded
C1_Witness ==
    /\ pc = "decoded"
    /\ NullCells # {}
    /\ Len(_keypoints) = 1
    /\ \E j \in Visited :
          /\ j > FirstNull
          /\ ~EmptyCell(j) /\ ~TruncatedCell(j) /\ ~HasNullPosition(j)

\* C10: a visited cell before the sentinel produces no keypoint iff it is empty
\* (raw x + raw y = 0 and score low byte 0) or truncated; skipping does not end
\* decoding and the keypoints keep the order of their cells: the k-th keypoint
\* is the one built from the k-th producing cell
C10_EmptyCellSkip ==
    pc = "decoded" =>
        LET P == Producing
        IN  /\ Len(_keypoints) = Cardinality(P)
            /\ \A k \in 1..Len(_keypoints) :
                  _keypoints[k] =
                      SpeedyKeypoint(pixels, Nth(P, k), descriptorSize, extraSize)

\* an empty cell is skipped and a later cell still produces a keypoint
C10_Witness ==
    /\ pc = "decoded"
    /\ \E i \in Visited, j \in Producing :
          /\ i < j
          /\ EmptyCell(i)
          /\ BeforeSentinel(i)
    /\ Len(_keypoints) >= 2

\* the list handed to the encoder when the last cell is the sentinel cell
Encoded == [k \in 1..(Len(cells) - 1) |-> RawKeypoint(cells[k], k, descriptorSize + extraSize)]

\* how many cells fit in the encoder texture
Capacity == (encoderLength * encoderLength) \div pixelsPerKeypoint(descriptorSize, extraSize)

\* the buffer is the packed list of Encoded, of at most Capacity keypoints,
\* followed by a sentinel cell
IsPackedList ==
    /\ Len(cells) >= 1
    /\ cells[Len(cells)] = NullKind
    /\ ending = 0
    /\ Len(cells) - 1 <= Capacity

\* the decoded list is the encoded one: same length and order, the k-th element
\* with the k-th keypoint's raw position, score, lod byte, orientation byte
\* (decoded by the rules of the wire format) and bytes
RoundTrip ==
    /\ Len(_keypoints) = Len(Encoded)
    /\ \A k \in 1..Len(Encoded) :
          k <= Len(_keypoints) =>
            /\ _keypoints[k].x = <<Encoded[k].x, FIX_RESOLUTION>>
            /\ _keypoints[k].y = <<Encoded[k].y, FIX_RESOLUTION>>
            /\ _keypoints[k].score = Encoded[k].score
            /\ _keypoints[k].lod =
                  IF Encoded[k].lod < 255
                  THEN <<(0 - LOG2_PYRAMID_MAX_SCALE) * 255
                         + (LOG2_PYRAMID_MAX_SCALE + PYRAMID_MAX_LEVELS) * Encoded[k].lod, 255>>
                  ELSE <<0, 255>>
            /\ _keypoints[k].rotation = 2 * Encoded[k].orientation - 255
            /\ _keypoints[k].extra \o _keypoints[k].descriptor = Encoded[k].bytes

\* C2 as stated: the round trip holds for any list of up to capacity keypoints
\* with arbitrary position and score
C2_RoundTripAnyKeypoint ==
    (pc = "decoded" /\ IsPackedList) => RoundTrip

\* C2 amended: the round trip holds when no keypoint of the list has the null
\* position (0xFFFF, 0xFFFF) or a zero header (raw x + raw y = 0 and score low byte 0)
C2_RoundTrip ==
    ( /\ pc = "decoded"
      /\ IsPackedList
      /\ \A k \in 1..(Len(cells) - 1) : IsKeypointKind(cells[k]) ) => RoundTrip

\* two different keypoints with descriptor and extra bytes went through the codec
C2_Witness ==
    /\ pc = "decoded"
    /\ IsPackedList
    /\ \A k \in 1..(Len(cells) - 1) : IsKeypointKind(cells[k])
    /\ Len(cells) = 3
    /\ cells[1] # cells[2]
    /\ descriptorSize >= 1
    /\ extraSize >= 1
    /\ Len(_keypoints) = 2

\* C9 as stated: the descriptor is the bytes at cell offsets [8, 8 + descriptorSize),
\* the extra bytes are those at [8 + descriptorSize, 8 + descriptorSize + extraSize)
C9_DescriptorThenExtra ==
    pc = "decoded" =>
        LET P == Producing
        IN  \A k \in 1..Len(_keypoints) :
                k <= Cardinality(P) =>
                  LET i == Nth(P, k)
                  IN  /\ _keypoints[k].descriptor = Bytes(i + 8, i + 8 + descriptorSize)
                      /\ _keypoints[k].extra =
                            Bytes(i + 8 + descriptorSize, i + 8 + descriptorSize + extraSize)

\* C9 amended: after the 8 header bytes come the extra bytes, at cell offsets
\* [8, 8 + extraSize), followed by the descriptor bytes, at
\* [8 + extraSize, 8 + extraSize + descriptorSize)
C9_ExtraThenDescriptor ==
    pc = "decoded" =>
        LET P == Producing
        IN  /\ Len(_keypoints) = Cardinality(P)
            /\ \A k \in 1..Len(_keypoints) :
                  LET i == Nth(P, k)
                  IN  /\ _keypoints[k].extra = Bytes(i + 8, i + 8 + extraSize)
                      /\ _keypoints[k].descriptor =
                            Bytes(i + 8 + extraSize, i + 8 + extraSize + descriptorSize)

\* a keypoint with both descriptor and extra bytes was decoded
C9_Witness ==
    /\ pc = "decoded"
    /\ descriptorSize >= 1
    /\ extraSize >= 1
    /\ Len(_keypoints) >= 1

\* the visited cells that have all their descriptor and extra bytes
Complete == { i \in Visited : ~TruncatedCell(i) }

\* C11: a cell with fewer than descriptorSize + extraSize bytes after its 8
\* header bytes is discarded: every returned keypoint has exactly descriptorSize
\* descriptor bytes and extraSize extra bytes, and no more keypoints are returned
\* than there are visited cells with all their bytes
C11_Truncation ==
    pc = "decoded" =>
        /\ \A k \in 1..Len(_keypoints) :
              /\ Len(_keypoints[k].descriptor) = descriptorSize
              /\ Len(_keypoints[k].extra) = extraSize
        /\ Len(_keypoints) <= Cardinality(Complete)

\* a cell with a complete, non-empty header before the sentinel lacks some of
\* its descriptor or extra bytes, after a keypoint that was decoded
C11_Witness ==
    /\ pc = "decoded"
    /\ Len(_keypoints) >= 1
    /\ \E i \in Visited :
          /\ BeforeSentinel(i)
          /\ i + 8 <= Len(pixels)
          /\ ~EmptyCell(i)
          /\ TruncatedCell(i)

\* C17: every returned keypoint comes from a cell whose 8 header bytes all lie
\* inside the buffer: the cell of the k-th keypoint starts at a byte i with
\* i + 8 <= pixels.length
C17_HeaderInsideBuffer ==
    pc = "decoded" =>
        LET P == Producing
        IN  \A k \in 1..Len(_keypoints) :
                k <= Cardinality(P) => Nth(P, k) + 8 <= Len(pixels)

\* number of bytes of the square encoder texture
TextureBytes == 4 * encoderLength * encoderLength

\* C18: the decoder stays inside the encoder texture: every returned keypoint
\* comes from a cell whose header lies below byte 4 * encoderLength^2, and at
\* most floor(encoderLength^2 / pixelsPerKeypoint) keypoints are returned
C18_InsideTexture ==
    pc = "decoded" =>
        LET P == Producing
        IN  /\ Len(_keypoints) <= Capacity
            /\ \A k \in 1..Len(_keypoints) :
                  k <= Cardinality(P) => Nth(P, k) + 8 <= TextureBytes

(***************************************************************************)
(* Typed arrays and loops of the matrix kernel                             *)
(***************************************************************************)
\* a[k]: undefined past the end of the array
At(a, k) == IF k >= 0 /\ k < Len(a) THEN a[k + 1] ELSE undefined

\* ToNumber of an element read
Num(v) == IF v = undefined THEN NaN ELSE v

Plus(a, b) == IF Num(a) = NaN \/ Num(b) = NaN THEN NaN ELSE a + b
Minus(a, b) == IF Num(a) = NaN \/ Num(b) = NaN THEN NaN ELSE a - b
Times(a, b) == IF Num(a) = NaN \/ Num(b) = NaN THEN NaN ELSE a * b

\* a[k] = v: a write past the end of a typed array is dropped
Put(a, k, v) == IF k >= 0 /\ k < Len(a) THEN [a EXCEPT ![k + 1] = v] ELSE a

\* TypedArray.prototype.fill(v, start, end)
TypedFill(a, v, start, end) ==
    [idx \in 1..Len(a) |-> IF start <= idx - 1 /\ idx - 1 < Min(end, Len(a)) THEN v ELSE a[idx]]

\* TypedArray.prototype.set(source, offset): RangeError (nothing written) when
\* the source does not fit
TypedSet(a, source, offset) ==
    IF Len(source) + offset > Len(a) THEN a
    ELSE [idx \in 1..Len(a) |->
            IF offset <= idx - 1 /\ idx - 1 < offset + Len(source)
            THEN source[idx - offset] ELSE a[idx]]

\* for(k = from; k < to; k++) acc = Body(acc, k): the for loops of
\* matrix-math.js (lines 63, 87-88, 106-107, 125-129, ... 281-285)
RECURSIVE For(_, _, _, _)
For(from, to, Body(_, _), acc) ==
    IF from >= to THEN acc ELSE For(from + 1, to, Body, Body(acc, from))

(***************************************************************************)
(* MatrixMath                                                              *)
(***************************************************************************)
nop(h, out, in) == out

\* mutant: the memset-like fill is used whatever the stride
fill_Memset(h, out, in) == TypedFill(out, h.custom.value, 0, h.length)

fill(h, out, in) ==
    IF h.rows * h.columns = h.length
    THEN TypedFill(out, h.custom.value, 0, h.length)
    ELSE For(0, h.columns,
             LAMBDA o, j : TypedFill(o, h.custom.value, j * h.stride, j * h.stride + h.rows),
             out)

copy(h, out, in) ==
    LET strideI == h.strideOfInputs[1]
        input == in[1]
    IN  IF h.length = h.lengthOfInputs[1] /\ h.rows * h.columns = h.length
        THEN TypedSet(out, input, 0)
        ELSE For(0, h.columns,
                 LAMBDA o1, j :
                    For(0, h.rows,
                        LAMBDA o2, i : Put(o2, j * h.stride + i, At(input, j * strideI + i)),
                        o1),
                 out)

\* mutant: the input is read at (i, j) instead of (j, i)
transpose_NoSwap(h, out, in) ==
    LET strideT == h.strideOfInputs[1]
        input == in[1]
    IN  For(0, h.rows,
            LAMBDA o1, i :
               For(0, h.columns,
                   LAMBDA o2, j : Put(o2, j * h.stride + i, At(input, j * strideT + i)),
                   o1),
            out)

transpose(h, out, in) ==
    LET strideT == h.strideOfInputs[1]
        input == in[1]
    IN  For(0, h.rows,
            LAMBDA o1, i :
               For(0, h.columns,
                   LAMBDA o2, j : Put(o2, j * h.stride + i, At(input, i * strideT + j)),
                   o1),
            out)

add(h, out, in) ==
    LET strideA == h.strideOfInputs[1]
        strideB == h.strideOfInputs[2]
        a == in[1]
        b == in[2]
    IN  For(0, h.columns,
            LAMBDA o1, j :
               For(0, h.rows,
                   LAMBDA o2, i : Put(o2, j * h.stride + i,
                                      Plus(At(a, j * strideA + i), At(b, j * strideB + i))),
                   o1),
            out)

subtract(h, out, in) ==
    LET strideA == h.strideOfInputs[1]
        strideB == h.strideOfInputs[2]
        a == in[1]
        b == in[2]
    IN  For(0, h.columns,
            LAMBDA o1, j :
               For(0, h.rows,
                   LAMBDA o2, i : Put(o2, j * h.stride + i,
                                      Minus(At(a, j * strideA + i), At(b, j * strideB + i))),
                   o1),
            out)

\* mutant: the output is not cleared before accumulating
Clear_None(h, out) == out

\* clear matrix (multiply, multiplyrt)
Clear(h, out) ==
    IF h.rows * h.columns # h.length
    THEN For(0, h.columns,
             LAMBDA o, c : TypedFill(o, 0, c * h.stride, c * h.stride + h.rows),
             out)
    ELSE TypedFill(out, 0, 0, h.length)

multiply(h, out, in) ==
    LET columnsA == h.columnsOfInputs[1]
        columnsB == h.columnsOfInputs[2]
        strideA == h.strideOfInputs[1]
        strideB == h.strideOfInputs[2]
        a == in[1]
        b == in[2]
    IN  For(0, columnsB,
            LAMBDA o1, k :
               For(0, columnsA,
                   LAMBDA o2, j :
                      LET bjk == At(b, k * strideB + j)
                      IN  For(0, h.rows,
                              LAMBDA o3, i :
                                 Put(o3, k * h.stride + i,
                                     Plus(At(o3, k * h.stride + i),
                                          Times(At(a, j * strideA + i), bjk))),
                              o2),
                   o1),
            Clear(h, out))

\* mutant: output[ojk] is not reset before the inner loop
multiplylt_NoReset(h, out, in) ==
    LET columnsA == h.columnsOfInputs[1]
        columnsB == h.columnsOfInputs[2]
        rowsB == h.rowsOfInputs[2]
        strideA == h.strideOfInputs[1]
        strideB == h.strideOfInputs[2]
        a == in[1]
        b == in[2]
    IN  For(0, columnsB,
            LAMBDA o1, k :
               For(0, columnsA,
                   LAMBDA o2, j :
                      LET ojk == k * h.stride + j
                      IN  For(0, rowsB,
                              LAMBDA o3, i :
                                 Put(o3, ojk,
                                     Plus(At(o3, ojk),
                                          Times(At(a, j * strideA + i), At(b, k * strideB + i)))),
                              o2),
                   o1),
            out)

multiplylt(h, out, in) ==
    LET columnsA == h.columnsOfInputs[1]
        columnsB == h.columnsOfInputs[2]
        rowsB == h.rowsOfInputs[2]
        strideA == h.strideOfInputs[1]
        strideB == h.strideOfInputs[2]
        a == in[1]
        b == in[2]
    IN  For(0, columnsB,
            LAMBDA o1, k :
               For(0, columnsA,
                   LAMBDA o2, j :
                      LET ojk == k * h.stride + j
                      IN  For(0, rowsB,
                              LAMBDA o3, i :
                                 Put(o3, ojk,
                                     Plus(At(o3, ojk),
                                          Times(At(a, j * strideA + i), At(b, k * strideB + i)))),
                              Put(o2, ojk, 0)),
                   o1),
            out)

multiplyrt(h, out, in) ==
    LET columnsA == h.columnsOfInputs[1]
        rowsB == h.rowsOfInputs[2]
        strideA == h.strideOfInputs[1]
        strideB == h.strideOfInputs[2]
        a == in[1]
        b == in[2]
    IN  For(0, columnsA,
            LAMBDA o1, j :
               For(0, rowsB,
                   LAMBDA o2, k :
                      LET bkj == At(b, j * strideB + k)
                      IN  For(0, h.rows,
                              LAMBDA o3, i :
                                 Put(o3, k * h.stride + i,
                                     Plus(At(o3, k * h.stride + i),
                                          Times(At(a, j * strideA + i), bkj))),
                              o2),
                   o1),
            Clear(h, out))

scale(h, out, in) ==
    LET input == in[1]
    IN  For(0, h.columns,
            LAMBDA o1, j :
               For(0, h.rows,
                   LAMBDA o2, i : Put(o2, j * h.stride + i,
                                      Times(At(input, j * h.stride + i), h.custom.scalar)),
                   o1),
            out)

compmult(h, out, in) ==
    LET strideA == h.strideOfInputs[1]
        strideB == h.strideOfInputs[2]
        a == in[1]
        b == in[2]
    IN  For(0, h.columns,
            LAMBDA o1, j :
               For(0, h.rows,
                   LAMBDA o2, i : Put(o2, j * h.stride + i,
                                      Times(At(a, j * strideA + i), At(b, j * strideB + i))),
                   o1),
            out)

\* Opcode2fun
Opcode2fun(opcode, h, out, in) ==
    CASE opcode = "NOP" -> nop(h, out, in)
      [] opcode = "FILL" -> fill(h, out, in)
      [] opcode = "COPY" -> copy(h, out, in)
      [] opcode = "TRANSPOSE" -> transpose(h, out, in)
      [] opcode = "ADD" -> add(h, out, in)
      [] opcode = "SUBTRACT" -> subtract(h, out, in)
      [] opcode = "MULTIPLY" -> multiply(h, out, in)
      [] opcode = "SCALE" -> scale(h, out, in)
      [] opcode = "COMPMULT" -> compmult(h, out, in)
      [] opcode = "MULTIPLYLT" -> multiplylt(h, out, in)
      [] opcode = "MULTIPLYRT" -> multiplyrt(h, out, in)

(***************************************************************************)
(* One call of the interpreter: operands, header, storages                 *)
(***************************************************************************)
\* element (i, j) of the operands A and B (integers in -3..3)
ElemA(i, j) == ((setup.seed * (3 * i + 5 * j + 1)) % 7) - 3
ElemB(i, j) == ((setup.seed * (2 * i + 7 * j + 3) + 1) % 5) - 2

\* length of the backing storage of a rows x columns matrix: with or without
\* the padding that follows the last column
StorageLength(rows, columns, stride, tail) ==
    IF tail THEN columns * stride ELSE (columns - 1) * stride + rows

\* element (i, j) and padding element k of the storage called name
Element(name, i, j) ==
    CASE name = "A" -> ElemA(i, j)
      [] name = "B" -> ElemB(i, j)
      [] name = "O" -> setup.init * (10 + i + 3 * j)

Padding(name, k) ==
    CASE name = "A" -> 50 + k
      [] name = "B" -> 70 + k
      [] name = "O" -> 90 + k

\* column-major strided storage: element (i, j) is at index j * stride + i
Storage(name, rows, columns, stride, tail) ==
    [idx \in 1..StorageLength(rows, columns, stride, tail) |->
        IF (idx - 1) % stride < rows
        THEN Element(name, (idx - 1) % stride, (idx - 1) \div stride)
        ELSE Padding(name, idx - 1)]

StorageA == Storage("A", setup.rowsA, setup.colsA, setup.rowsA + setup.padA, setup.tail)

StorageB == Storage("B", setup.rowsB, setup.colsB, setup.rowsB + setup.padB, setup.tail)

\* what the output storage holds before the call (zeros in the logical region
\* when init = 0)
StorageO(rows, columns) == Storage("O", rows, columns, rows + setup.padO, setup.tail)

\* the header of a call with output shape rows x columns and n inputs
Header(rows, columns, n) ==
    [ rows            |-> rows,
      columns         |-> columns,
      stride          |-> rows + setup.padO,
      length          |-> StorageLength(rows, columns, rows + setup.padO, setup.tail),
      rowsOfInputs    |-> SubSeq(<<setup.rowsA, setup.rowsB>>, 1, n),
      columnsOfInputs |-> SubSeq(<<setup.colsA, setup.colsB>>, 1, n),
      strideOfInputs  |-> SubSeq(<<setup.rowsA + setup.padA, setup.rowsB + setup.padB>>, 1, n),
      lengthOfInputs  |-> SubSeq(<<Len(StorageA), Len(StorageB)>>, 1, n),
      custom          |-> [value |-> setup.seed + 4, scalar |-> setup.seed + 1] ]

SinkIdle ==
    /\ cells = <<>>
    /\ ending = 0
    /\ pixels = <<>>
    /\ descriptorSize = 0
    /\ extraSize = 0
    /\ encoderLength = 0
    /\ _keypoints = <<>>
    /\ pc = "idle"

MatInit ==
    /\ setup \in [ rowsA : 1..MaxDim, colsA : 1..MaxDim, padA : 0..MaxPad,
                   rowsB : 1..MaxDim, colsB : 1..MaxDim, padB : 0..MaxPad,
                   padO : 0..MaxPad, tail : BOOLEAN,
                   seed : 1..MaxSeed, init : 0..MaxInit ]
    /\ header = <<>>
    /\ inputs = <<>>
    /\ before = <<>>
    /\ output = <<>>
    /\ op = "NONE"
    /\ SinkIdle
    /\ ExtIdle

\* the interpreter executes opcode on an output of shape rows x columns
Call(opcode, rows, columns, n) ==
    /\ op = "NONE"
    /\ op' = opcode
    /\ header' = Header(rows, columns, n)
    /\ inputs' = SubSeq(<<StorageA, StorageB>>, 1, n)
    /\ before' = StorageO(rows, columns)
    /\ output' = Opcode2fun(opcode, Header(rows, columns, n), StorageO(rows, columns),
                            SubSeq(<<StorageA, StorageB>>, 1, n))
    /\ UNCHANGED setup
    /\ UNCHANGED <<sinkVars, extVars>>

SameShape == setup.rowsA = setup.rowsB /\ setup.colsA = setup.colsB

Nop == op = "NONE" /\ Call("NOP", setup.rowsA, setup.colsA, 0)
Fill == op = "NONE" /\ Call("FILL", setup.rowsA, setup.colsA, 0)
Copy == op = "NONE" /\ Call("COPY", setup.rowsA, setup.colsA, 1)
Transpose == op = "NONE" /\ Call("TRANSPOSE", setup.colsA, setup.rowsA, 1)
Add == SameShape /\ Call("ADD", setup.rowsA, setup.colsA, 2)
Subtract == SameShape /\ Call("SUBTRACT", setup.rowsA, setup.colsA, 2)
Multiply == setup.colsA = setup.rowsB /\ Call("MULTIPLY", setup.rowsA, setup.colsB, 2)
MultiplyLT == setup.rowsA = setup.rowsB /\ Call("MULTIPLYLT", setup.colsA, setup.colsB, 2)
MultiplyRT == setup.colsA = setup.colsB /\ Call("MULTIPLYRT", setup.rowsA, setup.rowsB, 2)
Scale == op = "NONE" /\ Call("SCALE", setup.rowsA, setup.colsA, 1)
CompMult == SameShape /\ Call("COMPMULT", setup.rowsA, setup.colsA, 2)

MatNext ==
    \/ Nop
    \/ Fill
    \/ Copy
    \/ Transpose
    \/ Add
    \/ Subtract
    \/ Multiply
    \/ MultiplyLT
    \/ MultiplyRT
    \/ Scale
    \/ CompMult

SpecMatrix == MatInit /\ [][MatNext]_vars

(***************************************************************************)
(* Properties of the matrix kernel                                         *)
(***************************************************************************)
\* element (i, j) of the output after the call
OutAt(i, j) == output[j * header.stride + i + 1]

\* element (i, j) of the n-th input, read at that input's own stride
InAt(n, i, j) == inputs[n][j * header.strideOfInputs[n] + i + 1]

\* sum of Term(0) .. Term(n - 1)
RECURSIVE Sigma(_, _)
Sigma(Term(_), n) == IF n = 0 THEN 0 ELSE Sigma(Term, n - 1) + Term(n - 1)

\* the logical elements of a strided storage, packed (stride == rows)
Packed(store, rows, columns, stride) ==
    [idx \in 1..(rows * columns) |->
        store[((idx - 1) \div rows) * stride + ((idx - 1) % rows) + 1]]

Called == op # "NONE"

\* C3: an operation writes only the logical rows x columns region of the output:
\* every padding element, at [j*stride + rows, j*stride + stride), keeps its value
C3_PaddingUntouched ==
    Called =>
        /\ Len(output) = Len(before)
        /\ \A idx \in 1..Len(before) :
              (idx - 1) % header.stride >= header.rows => output[idx] = before[idx]

\* a product written into an output that has padding rows holding values
C3_Witness ==
    /\ op = "MULTIPLY"
    /\ header.stride > header.rows
    /\ header.columns >= 2
    /\ \E idx \in 1..Len(before) :
          (idx - 1) % header.stride >= header.rows /\ before[idx] # 0
    /\ \E idx \in 1..Len(before) : output[idx] # before[idx]

\* C4: after MULTIPLY the output is A.B, after MULTIPLYRT it is A.B^T, whatever
\* the output held before the call
C4_MultiplyClears ==
    /\ op = "MULTIPLY" =>
          \A i \in 0..(header.rows - 1), k \in 0..(header.columns - 1) :
              OutAt(i, k) = Sigma(LAMBDA j : ElemA(i, j) * ElemB(j, k), setup.colsA)
    /\ op = "MULTIPLYRT" =>
          \A i \in 0..(header.rows - 1), k \in 0..(header.columns - 1) :
              OutAt(i, k) = Sigma(LAMBDA j : ElemA(i, j) * ElemB(k, j), setup.colsA)

\* a product with an inner dimension of 2 or more, written over non-zero values
C4_Witness ==
    /\ op = "MULTIPLYRT"
    /\ setup.colsA >= 2
    /\ setup.rowsA # setup.rowsB
    /\ \E i \in 0..(header.rows - 1), k \in 0..(header.columns - 1) :
          before[k * header.stride + i + 1] # 0

\* the same call with every matrix packed: stride == rows
PackedHeader ==
    [ header EXCEPT
        !.stride = header.rows,
        !.length = header.rows * header.columns,
        !.strideOfInputs = header.rowsOfInputs,
        !.lengthOfInputs = [n \in 1..Len(inputs) |->
                               header.rowsOfInputs[n] * header.columnsOfInputs[n]] ]

PackedInputs ==
    [n \in 1..Len(inputs) |->
        Packed(inputs[n], header.rowsOfInputs[n], header.columnsOfInputs[n],
               header.strideOfInputs[n])]

PackedResult ==
    Opcode2fun(op, PackedHeader,
               Packed(before, header.rows, header.columns, header.stride), PackedInputs)

\* C5: for every operation and every choice of the strides, the logical result
\* equals the result of the same call on packed matrices
C5_StrideIndependence ==
    Called => Packed(output, header.rows, header.columns, header.stride) = PackedResult

\* C6: MULTIPLYLT(A, B) is MULTIPLY(TRANSPOSE(A), B): output[j,k] is the sum over i
\* of A[i,j]*B[i,k], for every stride and every initial content of the output
C6_MultiplyLT ==
    op = "MULTIPLYLT" =>
        LET strideT == setup.colsA + setup.padA
            headerT == [ header EXCEPT
                           !.rows = setup.colsA, !.columns = setup.rowsA,
                           !.stride = strideT,
                           !.length = setup.rowsA * strideT,
                           !.rowsOfInputs = <<setup.rowsA>>,
                           !.columnsOfInputs = <<setup.colsA>>,
                           !.strideOfInputs = <<header.strideOfInputs[1]>>,
                           !.lengthOfInputs = <<header.lengthOfInputs[1]>> ]
            At_ == transpose(headerT, [idx \in 1..(setup.rowsA * strideT) |-> 90 + idx],
                             <<inputs[1]>>)
            headerM == [ header EXCEPT
                           !.rowsOfInputs = <<setup.colsA, setup.rowsB>>,
                           !.columnsOfInputs = <<setup.rowsA, setup.colsB>>,
                           !.strideOfInputs = <<strideT, header.strideOfInputs[2]>>,
                           !.lengthOfInputs = <<Len(At_), header.lengthOfInputs[2]>> ]
            product == multiply(headerM, before, <<At_, inputs[2]>>)
        IN  /\ \A j \in 0..(header.rows - 1), k \in 0..(header.columns - 1) :
                  /\ OutAt(j, k) = Sigma(LAMBDA i : ElemA(i, j) * ElemB(i, k), setup.rowsA)
                  /\ OutAt(j, k) = product[k * header.stride + j + 1]

\* A^T B with two or more rows to sum over, padded operands and an output that
\* held non-zero values
C6_Witness ==
    /\ op = "MULTIPLYLT"
    /\ setup.rowsA >= 2
    /\ setup.colsA # setup.colsB
    /\ setup.padA >= 1
    /\ setup.padO >= 1
    /\ setup.init >= 1

\* C7: ADD, SUBTRACT, COMPMULT and SCALE compute the componentwise result, each
\* operand read at its own storage index j * strideOfThatOperand + i
C7_Componentwise ==
    \A i \in 0..(IF Called THEN header.rows ELSE 0) - 1 :
    \A j \in 0..(IF Called THEN header.columns ELSE 0) - 1 :
        /\ op = "ADD" => OutAt(i, j) = InAt(1, i, j) + InAt(2, i, j)
        /\ op = "SUBTRACT" => OutAt(i, j) = InAt(1, i, j) - InAt(2, i, j)
        /\ op = "COMPMULT" => OutAt(i, j) = InAt(1, i, j) * InAt(2, i, j)
        /\ op = "SCALE" => OutAt(i, j) = header.custom.scalar * InAt(1, i, j)

\* C8: TRANSPOSE gives output[i,j] = A[j,i], and transposing the result (rows and
\* columns of the header swapped) gives back A
C8_TransposeInvolution ==
    op = "TRANSPOSE" =>
        LET strideBack == setup.rowsA + setup.padB
            headerBack == [ header EXCEPT
                              !.rows = setup.rowsA, !.columns = setup.colsA,
                              !.stride = strideBack,
                              !.length = setup.colsA * strideBack,
                              !.rowsOfInputs = <<header.rows>>,
                              !.columnsOfInputs = <<header.columns>>,
                              !.strideOfInputs = <<header.stride>>,
                              !.lengthOfInputs = <<header.length>> ]
            back == transpose(headerBack, [idx \in 1..(setup.colsA * strideBack) |-> 90 + idx],
                              <<output>>)
        IN  /\ \A i \in 0..(header.rows - 1), j \in 0..(header.columns - 1) :
                  OutAt(i, j) = ElemA(j, i)
            /\ \A i \in 0..(setup.rowsA - 1), j \in 0..(setup.colsA - 1) :
                  back[j * strideBack + i + 1] = ElemA(i, j)

\* a matrix that is not square, transposed between padded storages
C8_Witness ==
    /\ op = "TRANSPOSE"
    /\ setup.rowsA # setup.colsA
    /\ setup.padA >= 1
    /\ setup.padO >= 1

(***************************************************************************)
(* The keypoint encoder (src/gpu/shaders/encoders/encode-keypoints.glsl)   *)
(*                                                                         *)
(* A channel of a texel holds byte / 255; channels are bytes here, so that *)
(* pixel.r > 0.0f is r > 0 and int(pixel.b * 255.0f) is b.  A position is  *)
(* a record [x, y]; the texel at (x, y) of an image of width w has raster  *)
(* index y * w + x.                                                        *)
(***************************************************************************)
MaxPixels == 4
MaxKeypointIndex == 2

\* skip offsets held by the B channel
Skips == {0, 1, 2}

\* imageSize: width >= 1, any height
Shapes == { sh \in (1..MaxPixels) \X (0..MaxPixels) : sh[1] * sh[2] <= MaxPixels }

\* the sparse keypoint images: which texels are corners, and their skip offsets
Images ==
    UNION { [ w : {sh[1]}, h : {sh[2]},
              corner : [0..(sh[1] * sh[2] - 1) -> BOOLEAN],
              skip : [0..(sh[1] * sh[2] - 1) -> Skips] ] : sh \in Shapes }

\* R (score, 0 = not a corner), G, B (skip offset), A (scale) of the texel at
\* raster index k
Texel(img, k) ==
    [ r |-> IF img.corner[k] THEN k + 1 ELSE 0,
      g |-> 0,
      b |-> img.skip[k],
      a |-> 7 * (k + 1) ]

\* texelFetch(image, position, 0); a fetch outside the image is not made by
\* the shader (see C15) and is given the zero texel here
texelFetch(img, position) ==
    IF /\ 0 <= position.x /\ position.x < img.w
       /\ 0 <= position.y /\ position.y < img.h
    THEN Texel(img, position.y * img.w + position.x)
    ELSE [r |-> 0, g |-> 0, b |-> 0, a |-> 0]

\* mutant: every texel counts as a keypoint
Count_Every(p, pixel) == p + 1

\* p += int(pixel.r > 0.0f)
Count(p, pixel) == p + (IF pixel.r > 0 THEN 1 ELSE 0)

\* i += 1 + int(pixel.b * 255.0f)
Advance(i, pixel) == i + 1 + pixel.b

\* mutant: the raster index is split with a row one texel too wide
Locate_WiderRow(img, i) == [x |-> i % (img.w + 1), y |-> i \div (img.w + 1)]

\* position = ivec2(i % imageSize.x, i / imageSize.x)
Locate(img, i) == [x |-> i % img.w, y |-> i \div img.w]

\* int i = 0, p = -1; position = ivec2(0, 0); the out-parameter pixel is not
\* written yet.  iterations, fetched and before record the run of the loop:
\* the number of iterations, the position of the last fetch and the value of
\* i before the last iteration
ScanInit ==
    [ i |-> 0, p |-> 0 - 1, position |-> [x |-> 0, y |-> 0], pixel |-> "unset",
      iterations |-> 0, fetched |-> "none", before |-> 0 - 1 ]

\* while(position.y < imageSize.y && p != q)
ScanCond(img, q, s) == s.position.y < img.h /\ s.p # q

\* the body of the loop
ScanStep(img, s) ==
    LET pixel == texelFetch(img, s.position)
        i == Advance(s.i, pixel)
    IN  [ i |-> i,
          p |-> Count(s.p, pixel),
          position |-> Locate(img, i),
          pixel |-> pixel,
          iterations |-> s.iterations + 1,
          fetched |-> s.position,
          before |-> s.i ]

RECURSIVE ScanLoop(_, _, _)
ScanLoop(img, q, s) ==
    IF ScanCond(img, q, s) THEN ScanLoop(img, q, ScanStep(img, s)) ELSE s

\* findQthKeypoint(q, position, pixel): the value returned and the two
\* out-parameters
findQthKeypoint(img, q) ==
    LET s == ScanLoop(img, q, ScanInit)
    IN  [found |-> s.p = q, position |-> s.position, pixel |-> s.pixel]

\* vec4(0.0f)
Zero4 == <<0, 0, 0, 0>>

\* encodeNullKeypoint(): all four bytes FF
encodeNullKeypoint == <<255, 255, 255, 255>>

KPF_NONE == 0

encodeKeypointFlags(flags) == flags

\* encodeKeypointPosition(position): x and y in fixed point, low byte first
encodeKeypointPosition(position) ==
    LET fx == position.x * FIX_RESOLUTION
        fy == position.y * FIX_RESOLUTION
    IN  <<fx % 256, (fx \div 256) % 256, fy % 256, (fy \div 256) % 256>>

\* write keypoint data: pixel 1 of the cell holds scale, rotation, score and
\* flags, pixel 0 holds the position
KeypointData(offset, position, pixel) ==
    IF offset = 1
    THEN <<pixel.a, 0, pixel.r, encodeKeypointFlags(KPF_NONE)>>
    ELSE encodeKeypointPosition(position)

\* main() of a thread with keypoint index q, address.offset offset and tile
\* tile, when the output pixel held previous
main(img, q, offset, tile, tileIndex, previous) ==
    IF tile # tileIndex THEN previous
    ELSE IF offset > 1 THEN Zero4
    ELSE LET f == findQthKeypoint(img, q)
         IN  IF ~f.found THEN encodeNullKeypoint
             ELSE KeypointData(offset, f.position, f.pixel)

\* what the threads of one texture derive from their location
Offsets == {0, 1, 2}
Tiles == {0, 1}
Threads ==
    [ q : 0..MaxKeypointIndex, offset : Offsets, tile : Tiles, tileIndex : Tiles ]

\* threadPixel(encodedKeypoints) of the thread
PreviousPixel == <<1, 2, 3, 4>>

EncInit == SinkIdle /\ MatIdle /\ ExtIdle

\* main() up to the call of findQthKeypoint
Begin ==
    /\ epc = "idle"
    /\ \E img \in Images, t \in Threads :
          /\ image' = img
          /\ thread' = t
          /\ IF t.tile # t.tileIndex
             THEN color' = PreviousPixel /\ scan' = <<>> /\ epc' = "done"
             ELSE IF t.offset > 1
             THEN color' = Zero4 /\ scan' = <<>> /\ epc' = "done"
             ELSE color' = encodeNullKeypoint /\ scan' = ScanInit /\ epc' = "scan"
    /\ UNCHANGED <<sinkVars, matVars, tileVars, runVars>>

\* one iteration of the loop of findQthKeypoint
Iterate ==
    /\ epc = "scan"
    /\ ScanCond(image, thread.q, scan)
    /\ scan' = ScanStep(image, scan)
    /\ UNCHANGED <<image, thread, color, epc>>
    /\ UNCHANGED <<sinkVars, matVars, tileVars, runVars>>

\* findQthKeypoint returns and main() writes its output
Return ==
    /\ epc = "scan"
    /\ ~ScanCond(image, thread.q, scan)
    /\ color' = IF scan.p = thread.q
                THEN KeypointData(thread.offset, scan.position, scan.pixel)
                ELSE color
    /\ epc' = "done"
    /\ UNCHANGED <<image, thread, scan>>
    /\ UNCHANGED <<sinkVars, matVars, tileVars, runVars>>

EncNext == Begin \/ Iterate \/ Return

SpecEncoder == EncInit /\ [][EncNext]_vars

(***************************************************************************)
(* Properties of the keypoint encoder                                      *)
(***************************************************************************)
\* raster indices of the image, and those of its keypoint pixels (R > 0)
Rasters(img) == 0..(img.w * img.h - 1)
KeypointRasters(img) == { k \in Rasters(img) : Texel(img, k).r > 0 }

\* no skip offset leaps over a keypoint pixel: the texels skipped after a texel
\* are not keypoints
NoLeap(img) ==
    \A k \in Rasters(img) :
        \A j \in (k + 1)..(k + Texel(img, k).b) : j \notin KeypointRasters(img)

\* the thread belongs to the tile being processed
Active == thread.tile = thread.tileIndex

\* findQthKeypoint has returned true
Found == epc = "done" /\ Active /\ thread.offset <= 1 /\ scan.p = thread.q

\* C12: on an image whose skip offsets leap over no keypoint pixel,
\* findQthKeypoint(q) returns true iff the image has at least q + 1 keypoint
\* pixels; a header thread (offset <= 1) of the active tile whose q has no
\* keypoint writes the null keypoint, and a thread with offset > 1 writes zeros
C12_Sentinel ==
    (epc = "done" /\ Active) =>
        /\ thread.offset > 1 => color = Zero4
        /\ thread.offset <= 1 =>
              /\ NoLeap(image) =>
                    (Found <=> Cardinality(KeypointRasters(image)) >= thread.q + 1)
              /\ ~Found => color = encodeNullKeypoint
              /\ ( /\ NoLeap(image)
                   /\ Cardinality(KeypointRasters(image)) <= thread.q )
                 => color = encodeNullKeypoint

\* a header thread has scanned an image with a skip followed by a keypoint, and
\* with fewer than q + 1 keypoints, and has written the sentinel
C12_Witness ==
    /\ epc = "done"
    /\ Active
    /\ thread.offset <= 1
    /\ NoLeap(image)
    /\ \E k \in Rasters(image), c \in KeypointRasters(image) :
          Texel(image, k).b > 0 /\ c > k + Texel(image, k).b
    /\ Cardinality(KeypointRasters(image)) = thread.q
    /\ thread.q >= 1
    /\ color = encodeNullKeypoint

\* the position of the texel with raster index k
PositionOf(img, k) == [x |-> k % img.w, y |-> k \div img.w]

\* raster index of the q-th keypoint pixel of the image, q = 0, 1, ...
QthKeypoint(img, q) == Nth(KeypointRasters(img), q + 1)

\* C14: when findQthKeypoint(q, position, pixel) returns true, position is the
\* row-major location of the q-th keypoint pixel and pixel is the texel at that
\* location, so that the thread writes the position (offset 0) or the scale and
\* score (offset 1) of that one keypoint
C14_PositionOfKeypoint ==
    Found =>
        LET k == QthKeypoint(image, thread.q)
        IN  /\ scan.position = PositionOf(image, k)
            /\ scan.pixel = Texel(image, k)
            /\ color = KeypointData(thread.offset, PositionOf(image, k), Texel(image, k))

\* C15: findQthKeypoint terminates for every image with width >= 1, every q
\* and every content of R and B: i strictly increases on every iteration, the
\* loop runs at most imageSize.x * imageSize.y iterations, and every texelFetch
\* is made at a position inside the image
C15_ScanTerminates ==
    epc \in {"scan", "done"} /\ scan # <<>> =>
        /\ scan.iterations <= image.w * image.h
        /\ scan.iterations >= 1 =>
              /\ scan.i > scan.before
              /\ 0 <= scan.fetched.x /\ scan.fetched.x < image.w
              /\ 0 <= scan.fetched.y /\ scan.fetched.y < image.h
        /\ epc = "scan" => ENABLED (Iterate \/ Return)

\* the loop has run over every texel of an image of more than one row, the last
\* texel with a skip offset, and has returned
C15_Witness ==
    /\ epc = "done"
    /\ scan # <<>>
    /\ image.h >= 2 /\ image.w >= 2
    /\ scan.iterations = image.w * image.h
    /\ scan.pixel.b > 0

(***************************************************************************)
(* The tiled passes of the encoder over one output texture                 *)
(***************************************************************************)
MaxTextureLength == 3
MaxTiles == 4

\* descriptor sizes of the passes: cells of 2 and of 3 pixels
TileDescriptorSizes == {0, 4}

\* the images encoded by the passes: one row of two texels
TileImages == { img \in Images : img.w = 2 /\ img.h = 1 }

\* threadLocation() of the thread with raster index k in an e x e output
threadLocation(k, e) == [x |-> k % e, y |-> k \div e]

\* findKeypointAddress(thread, encoderLength, descriptorSize, extraSize): the
\* first pixel of the thread's cell and the thread's offset in the cell
findKeypointAddress(th, e, dSize, eSize) ==
    LET raster == th.y * e + th.x
        ppk == pixelsPerKeypoint(dSize, eSize)
    IN  [base |-> (raster \div ppk) * ppk, offset |-> raster % ppk]

\* findKeypointIndex(address, descriptorSize, extraSize)
findKeypointIndex(address, dSize, eSize) ==
    address.base \div pixelsPerKeypoint(dSize, eSize)

\* mutant: tiles are numbered from 1
TileOf_OneBased(th, e, s) == (th.y \div s) * (e \div s) + (th.x \div s) + 1

\* tilePos = thread / tileSize; tileStride = encoderLength / tileSize;
\* tile = tilePos.y * tileStride + tilePos.x
TileOf(th, e, s) == (th.y \div s) * (e \div s) + (th.x \div s)

\* main() of the thread with raster index k, in the pass with tileIndex t that
\* reads the texture previous
Shade(u, k, t, previous) ==
    LET th == threadLocation(k, u.encoderLength)
        address == findKeypointAddress(th, u.encoderLength,
                                       u.descriptorSize, u.extraSize)
        q == findKeypointIndex(address, u.descriptorSize, u.extraSize)
    IN  main(u.image, q, address.offset,
             TileOf(th, u.encoderLength, u.tileSize), t, previous[k])

\* number of values of tileIndex the host draws
NumTiles(e, s) == (e \div s) * (e \div s)

\* raster indices of the output texture
OutputRasters == 0..(tiling.encoderLength * tiling.encoderLength - 1)

TileInit == SinkIdle /\ MatIdle /\ ExtIdle

\* the host sets the uniforms; the output texture holds an earlier encoding
Bind ==
    /\ tiling = <<>>
    /\ \E e \in 1..MaxTextureLength, d \in TileDescriptorSizes, img \in TileImages :
          \E s \in 1..e :
              /\ NumTiles(e, s) <= MaxTiles
              /\ tiling' = [ image |-> img, descriptorSize |-> d, extraSize |-> 0,
                             encoderLength |-> e, tileSize |-> s ]
              /\ tex' = [k \in 0..(e * e - 1) |-> PreviousPixel]
              /\ writes' = [k \in 0..(e * e - 1) |-> 0]
    /\ UNCHANGED <<done, last>>
    /\ UNCHANGED <<sinkVars, matVars, encVars, runVars>>

\* one pass: every thread runs main() with uniform tileIndex = t
Draw ==
    /\ tiling # <<>>
    /\ \E t \in (0..(NumTiles(tiling.encoderLength, tiling.tileSize) - 1)) \ done :
          /\ tex' = [k \in OutputRasters |-> Shade(tiling, k, t, tex)]
          /\ writes' = [k \in OutputRasters |->
                          IF TileOf(threadLocation(k, tiling.encoderLength),
                                    tiling.encoderLength, tiling.tileSize) = t
                          THEN writes[k] + 1 ELSE writes[k]]
          /\ done' = done \cup {t}
          /\ last' = [t |-> t, before |-> tex]
    /\ UNCHANGED tiling
    /\ UNCHANGED <<sinkVars, matVars, encVars, runVars>>

TileNext == Bind \/ Draw

SpecTiles == TileInit /\ [][TileNext]_vars

(***************************************************************************)
(* Properties of the tiled passes                                          *)
(***************************************************************************)
\* the tile of an output pixel: with tilePos = thread / tileSize, the number
\* tilePos.y * (encoderLength / tileSize) + tilePos.x
TileNumber(k) ==
    LET e == tiling.encoderLength
        s == tiling.tileSize
    IN  ((k \div e) \div s) * (e \div s) + ((k % e) \div s)

\* the values of tileIndex of a full encoding
AllTiles == 0..(NumTiles(tiling.encoderLength, tiling.tileSize) - 1)

\* what one pass with tileSize = encoderLength and tileIndex = 0 writes over
\* the earlier encoding
Untiled ==
    [k \in OutputRasters |->
        Shade([tiling EXCEPT !.tileSize = tiling.encoderLength], k, 0,
              [j \in OutputRasters |-> PreviousPixel])]

\* C13: a pass with tileIndex = t leaves every output pixel of another tile
\* equal to its previous value; when tileSize divides encoderLength, after the
\* passes for all t in 0 .. (encoderLength / tileSize)^2 - 1, in any order, every
\* output pixel has been written by exactly one pass and the texture equals the
\* one a single untiled pass produces
C13_Tiling ==
    tiling # <<>> =>
        /\ last # <<>> =>
              \A k \in OutputRasters :
                  TileNumber(k) # last.t => tex[k] = last.before[k]
        /\ ( /\ tiling.encoderLength % tiling.tileSize = 0
             /\ done = AllTiles ) =>
              /\ \A k \in OutputRasters : writes[k] = 1
              /\ tex = Untiled

\* four tiles have been drawn, the last one not the highest, over an image
\* with a keypoint: the texture holds keypoint data and the sentinel
C13_Witness ==
    /\ tiling # <<>>
    /\ tiling.encoderLength % tiling.tileSize = 0
    /\ Cardinality(AllTiles) >= 4
    /\ done = AllTiles
    /\ last.t = 1
    /\ KeypointRasters(tiling.image) # {}
    /\ \E k \in OutputRasters : tex[k] = encodeNullKeypoint
    /\ \E k \in OutputRasters : tex[k] \notin {encodeNullKeypoint, Zero4, PreviousPixel}

(***************************************************************************)
(* The keypoint sink: runs, read-backs in flight and exports               *)
(***************************************************************************)
MaxPending == 2

\* messages the upstream node may leave on the input port: the cells of the
\* encoded texture and the three sizes
Messages ==
    { [cells |-> <<1>>, descriptorSize |-> 0, extraSize |-> 0, encoderLength |-> 1],
      [cells |-> <<2, 1>>, descriptorSize |-> 1, extraSize |-> 1, encoderLength |-> 2],
      [cells |-> <<1, 2, 1>>, descriptorSize |-> 2, extraSize |-> 0, encoderLength |-> 2],
      [cells |-> <<4, 1>>, descriptorSize |-> 0, extraSize |-> 1, encoderLength |-> 2] }

\* the buffer readPixelsAsync(encodedKeypoints) resolves with
PixelsOf(message) ==
    ReadBack(message.cells, 0, message.descriptorSize, message.extraSize)

\* mutant: the decoded keypoints are added to the stored list
Store_Append(stored, decoded) == stored \o decoded

\* this._keypoints = ...
Store(stored, decoded) == decoded

\* a sequence without its k-th element
Without(seq, k) == SubSeq(seq, 1, k - 1) \o SubSeq(seq, k + 1, Len(seq))

RunInit == SinkIdle /\ MatIdle /\ ExtIdle

\* the upstream node writes a message to its output port
Publish ==
    /\ \E m \in Messages : inbox' = m
    /\ UNCHANGED <<pending, resolved, exported>>
    /\ UNCHANGED <<sinkVars, matVars, encVars, tileVars>>

\* _run: reads the message and schedules the read-back of its texture
Run ==
    /\ inbox # <<>>
    /\ Len(pending) < MaxPending
    /\ pending' = Append(pending, [message |-> inbox, pixels |-> PixelsOf(inbox)])
    /\ UNCHANGED <<inbox, resolved, exported>>
    /\ UNCHANGED <<sinkVars, matVars, encVars, tileVars>>

\* a read-back resolves and the then-callback of its _run stores the keypoints
Resolve ==
    /\ \E k \in 1..Len(pending) :
          /\ _keypoints' =
                 Store(_keypoints,
                       _decode(pending[k].pixels,
                               pending[k].message.descriptorSize,
                               pending[k].message.extraSize,
                               pending[k].message.encoderLength))
          /\ resolved' = pending[k].message
          /\ pending' = Without(pending, k)
    /\ UNCHANGED <<inbox, exported>>
    /\ UNCHANGED <<cells, ending, pixels, descriptorSize, extraSize, encoderLength, pc>>
    /\ UNCHANGED <<matVars, encVars, tileVars>>

\* export(): a promise resolved with the stored list
Export ==
    /\ exported' = [list |-> _keypoints, after |-> resolved]
    /\ UNCHANGED <<inbox, pending, resolved>>
    /\ UNCHANGED <<sinkVars, matVars, encVars, tileVars>>

RunNext == Publish \/ Run \/ Resolve \/ Export

SpecRun == RunInit /\ [][RunNext]_vars

\* the list _decode computes from the pixels read back for a message; the
\* empty list when no _run has resolved
DecodedFor(message) ==
    IF message = <<>> THEN <<>>
    ELSE _decode(PixelsOf(message), message.descriptorSize, message.extraSize,
                 message.encoderLength)

\* C16: export() yields the empty list until a _run has resolved; after that it
\* yields exactly the list decoded for the message of the _run that resolved
\* last, until another _run resolves; the stored list is replaced as a whole
C16_RunExport ==
    /\ _keypoints = DecodedFor(resolved)
    /\ exported # <<>> => exported.list = DecodedFor(exported.after)

\* export() has yielded the two keypoints of a resolved _run while the
\* read-back of another _run, for another message with keypoints, is in flight
C16_Witness ==
    /\ exported # <<>>
    /\ exported.after # <<>>
    /\ exported.after = resolved
    /\ Len(exported.list) = 2
    /\ pending # <<>>
    /\ pending[1].message # resolved
    /\ DecodedFor(pending[1].message) # <<>>

====
